---------------------------- MODULE Spec2Model ----------------------------
(***************************************************************************)
(* A model of the meander node's identity and credential service:          *)
(* the three gRPC handlers of src/server/main.go (CreateClient,            *)
(* ConnectClient, ValidateToken), the node layer of src/node/node          *)
(* (NewLocalClient, RetrieveClient, GetLocalNode, Attach), the key         *)
(* custody of src/node/client/crypto.go and the Elasticsearch wrapper      *)
(* (Backlog) of src/unnamed/part_004.                                      *)
(*                                                                         *)
(* Conventions.                                                            *)
(*  - The document store and the key directory outlive the process: they   *)
(*    are part of the state, and Init draws them from the deployments a    *)
(*    process can be started on (an empty store, a provisioned store, a    *)
(*    store that already holds registered clients).                        *)
(*  - log.Fatalf ends the process: every request in flight is lost.        *)
(*  - SHA-256, DER/hex encoding and RSA are modelled as injective tagged   *)
(*    tuples; a value encrypted under a key or secret opens only with      *)
(*    that key or secret.                                                  *)
(*  - The store and the address service are reachable (no transport        *)
(*    errors); Elasticsearch answers as its API documents: get/search/     *)
(*    update of a missing index or document is an error (404), an index    *)
(*    request creates or replaces the document, a match query compares     *)
(*    analysed (lower-cased) terms.                                        *)
(***************************************************************************)
EXTENDS Integers, Sequences, FiniteSets, TLC

VARIABLES
  alive,      \* the server process is running
  indices,    \* Elasticsearch: the indices that exist
  docs,       \* Elasticsearch: index name -> (document id -> document)
  files,      \* BASE_PATH: uid -> [dir, private, public]
  nextUid,    \* the next value uuid.NewUUID() returns
  registered, \* history: uid -> the arguments of the registration that drew it
  pc,         \* per request slot: where its handler stands
  loc,        \* per request slot: the handler's local variables
  held,       \* per request slot: the Connection its peer received last
  out         \* what the last step returned to a caller (or a crash)

vars == <<alive, indices, docs, files, nextUid, registered, pc, loc, held, out>>

-----------------------------------------------------------------------------
(* Bounds *)

MaxUid == 2
MaxSeeds == 1
Handlers == {1, 2}
UIDs == 1..MaxUid

-----------------------------------------------------------------------------
(* Inputs *)

Valid1Password == <<"V","a","l","i","d","1","P","a","s","s","w","o","r","d">>
Other2Password == <<"O","t","h","e","r","2","P","a","s","s","w","o","r","d">>
Short1A == <<"s","h","o","r","t","1","A">>

Aliases == {"", "bob", "Bob", "zed"}
CreatePasswords == {<<>>, Short1A, Valid1Password}
CreateSecrets == {"", "s1"}
ConnectAliases == {"bob", "Bob", "zed"}
ConnectPasswords == {Valid1Password, Other2Password}
ConnectSecrets == {"s1", "s2"}
PeerAddrs == {"10.0.0.7"}
AccountIds == {"acc1", "acc2"}

\* What a deployment that already holds clients was registered with.
SeedAlias == <<"bob", "amy", "cat", "dan">>
SeedSecret == <<"s1", "s2", "s1", "s2">>
SeedAccount == <<"acc1", "acc2", "acc1", "acc2">>

-----------------------------------------------------------------------------
(* Encodings *)

Sha256Hex(x) == <<"sha256", x>>
Host == "203.0.113.5"
NodeHash == Sha256Hex(Host)
nodeVersion == "2023-12-26"

Key(n) == <<"rsa", n>>
Identity(key) == <<"hex", <<"pkix", key>>>>
ImpersonatePublicKey(key) == <<"pem", <<"pkix", key>>>>

NoFile == <<>>
NoDir == [dir |-> FALSE, private |-> NoFile, public |-> NoFile]

-----------------------------------------------------------------------------
(* Password policy: the closure isValid of CreateClient *)

LowerChars == {"a","b","c","d","e","f","g","h","i","j","k","l","m","n","o","p","q","r","s","t","u","v","w","x","y","z"}
UpperChars == {"A","B","C","D","E","F","G","H","I","J","K","L","M","N","O","P","Q","R","S","T","U","V","W","X","Y","Z"}
DigitChars == {"0","1","2","3","4","5","6","7","8","9"}

IsLower(char) == char \in LowerChars
IsUpper(char) == char \in UpperChars
IsDigit(char) == char \in DigitChars

MinPasswordLength == 10

\* One pass of the range loop: the switch sets the flag of the first case
\* that matches and length is incremented.
RECURSIVE ScanPassword(_, _, _)
ScanPassword(password, i, acc) ==
  IF i > Len(password) THEN acc
  ELSE LET char == password[i]
           nxt == [hasMin |-> acc.hasMin \/ IsLower(char),
                   hasMaj |-> acc.hasMaj \/ (~IsLower(char) /\ IsUpper(char)),
                   hasNum |-> acc.hasNum \/ (~IsLower(char) /\ ~IsUpper(char) /\ IsDigit(char)),
                   length |-> acc.length + 1]
       IN ScanPassword(password, i + 1, nxt)

\* A policy that asks for one character more than the minimum: what C8
\* tells apart from isValid.
isValidLonger(password) ==
  LET r == ScanPassword(password, 1, [hasMin |-> FALSE, hasMaj |-> FALSE, hasNum |-> FALSE, length |-> 0])
  IN r.length > MinPasswordLength /\ r.hasMin /\ r.hasMaj /\ r.hasNum

isValid(password) ==
  LET r == ScanPassword(password, 1, [hasMin |-> FALSE, hasMaj |-> FALSE, hasNum |-> FALSE, length |-> 0])
  IN r.length >= MinPasswordLength /\ r.hasMin /\ r.hasMaj /\ r.hasNum

-----------------------------------------------------------------------------
(* Backlog: the Elasticsearch wrapper *)

IndexNames == {"peers", "clients", "transactions", "blockchain", "node", "cache", "local_clients"}
InitializeIndexes == {"peers", "clients", "transactions", "blockchain", "node", "cache"}

Store == [indices |-> indices, docs |-> docs]

Put(d, id, document) == [x \in DOMAIN d \cup {id} |-> IF x = id THEN document ELSE d[x]]

Merge(old, new) ==
  [f \in DOMAIN old \cup DOMAIN new |-> IF f \in DOMAIN new THEN new[f] ELSE old[f]]

\* GetDocument: err when the response is an error (missing index or id).
GetDocumentOk(st, index, id) == index \in st.indices /\ id \in DOMAIN st.docs[index]
GetDocument(st, index, id) == st.docs[index][id]

\* The update API with a "doc" body: merges into an existing document and
\* answers 404 for a missing one.
UpdateDocument(st, index, id, document) ==
  IF GetDocumentOk(st, index, id)
  THEN [ok |-> TRUE,
        st |-> [st EXCEPT !.docs[index] = Put(@, id, Merge(st.docs[index][id], document))]]
  ELSE [ok |-> FALSE, st |-> st]

\* The index API: creates or replaces the document (and the index).
IndexRequest(st, index, id, document) ==
  [ok |-> TRUE,
   st |-> [indices |-> st.indices \cup {index},
           docs |-> [st.docs EXCEPT ![index] = Put(@, id, document)]]]

\* A create-only write, refused when the id is taken: what C12 tells apart
\* from IndexDocument.
IndexDocumentCreateOnly(st, index, id, document) ==
  IF GetDocumentOk(st, index, id)
  THEN [ok |-> FALSE, st |-> st]
  ELSE IndexRequest(st, index, id, document)

\* An upsert that creates the document when it is absent: what C5 tells
\* apart from IndexDocument.
IndexDocumentUpsert(st, index, id, document) ==
  IF GetDocumentOk(st, index, id)
  THEN UpdateDocument(st, index, id, document)
  ELSE IndexRequest(st, index, id, document)

\* Backlog.IndexDocument: the update request when GetDocument fails, the
\* index request when it succeeds.
IndexDocument(st, index, id, document) ==
  IF ~GetDocumentOk(st, index, id)
  THEN UpdateDocument(st, index, id, document)
  ELSE IndexRequest(st, index, id, document)

\* The standard analyzer of a dynamically mapped text field.
Lowercase(s) == CASE s = "Bob" -> "bob" [] OTHER -> s
Analyze(s) == IF s = "" THEN {} ELSE {Lowercase(s)}
Match(fieldValue, value) == Analyze(fieldValue) \cap Analyze(value) # {}

\* FindDocument: a match query; ok is FALSE when the search is an error,
\* hits are the ids of the matching documents (the code takes hits[0]).
FindDocument(st, index, key, value) ==
  IF index \notin st.indices
  THEN [ok |-> FALSE, hits |-> {}]
  ELSE [ok |-> TRUE,
        hits |-> {id \in DOMAIN st.docs[index] : Match(st.docs[index][id][key], value)}]

\* Initialize: creates each essential index that does not exist.
Initialize(st) == [st EXCEPT !.indices = @ \cup InitializeIndexes]

-----------------------------------------------------------------------------
(* Node *)

NodeDoc(status) ==
  [syncer |-> "0.0.0.0", host |-> Host, version |-> nodeVersion, status |-> status]

\* Node.SyncWithBacklog: the error of IndexDocument is returned (and
\* dropped by Attach).
NodeSyncWithBacklog(st, nodeIndex, node) == IndexDocument(st, nodeIndex, NodeHash, node)

\* Attach: status alive, written to "peers" and to "node".
Attach(st) ==
  LET n == NodeDoc("alive")
      a == NodeSyncWithBacklog(st, "peers", n).st
  IN NodeSyncWithBacklog(a, "node", n).st

\* Dettach: status hibernating, written to "peers" and to "node".
Dettach(st) ==
  LET n == NodeDoc("hibernating")
      a == NodeSyncWithBacklog(st, "peers", n).st
  IN NodeSyncWithBacklog(a, "node", n).st

\* Liquidate: status liquidated, written to "peers" and to "node".
Liquidate(st) ==
  LET n == NodeDoc("liquidated")
      a == NodeSyncWithBacklog(st, "peers", n).st
  IN NodeSyncWithBacklog(a, "node", n).st

\* GetLocalNode: log.Fatalf when the node document cannot be read.
GetLocalNodeOk(st) == GetDocumentOk(st, "node", NodeHash)

-----------------------------------------------------------------------------
(* CryptoResource: key custody on disk *)

\* An upload whose path leaves the uid out, so that every client's private
\* key lands in the directory of the first: what C29 tells apart from
\* UploadPrivateKey.
UploadPrivateKeySharedPath(fs, key, secret, uid) ==
  IF fs[uid].dir
  THEN [ok |-> TRUE, fs |-> [fs EXCEPT ![1].private = <<key, secret>>]]
  ELSE [ok |-> FALSE, fs |-> fs]

\* UploadPrivateKey: the PKCS8 key, PEM-encrypted under secret, written to
\* BASE_PATH/uid/private.pem; os.Create fails without the directory.
UploadPrivateKey(fs, key, secret, uid) ==
  IF fs[uid].dir
  THEN [ok |-> TRUE, fs |-> [fs EXCEPT ![uid].private = <<key, secret>>]]
  ELSE [ok |-> FALSE, fs |-> fs]

\* An upload that reports success without writing the file: what C13 tells
\* apart from UploadPublicKey.
UploadPublicKeyUnchecked(fs, key, uid) == [ok |-> TRUE, fs |-> fs]

\* An upload to one public.pem for all clients, in the directory of the
\* first: what C30 tells apart from UploadPublicKey.
UploadPublicKeySharedPath(fs, key, uid) ==
  IF fs[uid].dir
  THEN [ok |-> TRUE, fs |-> [fs EXCEPT ![1].public = <<key>>]]
  ELSE [ok |-> FALSE, fs |-> fs]

\* UploadPublicKey: the PKIX key in cleartext, BASE_PATH/uid/public.pem.
UploadPublicKey(fs, key, uid) ==
  IF fs[uid].dir
  THEN [ok |-> TRUE, fs |-> [fs EXCEPT ![uid].public = <<key>>]]
  ELSE [ok |-> FALSE, fs |-> fs]

\* A private.pem whose content pem.Decode finds no block in.
CorruptFile == <<"not a PEM block">>

\* A download without the check of the decoded block, which hands a corrupt
\* file on to the decryption: what C31 tells apart from DownloadPrivateKey.
DownloadPrivateKeyNoBlockCheck(fs, secret, uid) ==
  IF uid \notin DOMAIN fs \/ fs[uid].private = NoFile
  THEN [ok |-> FALSE, err |-> "failed to read file private.pem", key |-> <<>>]
  ELSE IF Len(fs[uid].private) # 2 \/ fs[uid].private[2] # secret
  THEN [ok |-> FALSE, err |-> "failed to decrypt pem block", key |-> <<>>]
  ELSE [ok |-> TRUE, err |-> "", key |-> fs[uid].private[1]]

\* DownloadPrivateKey: err "read" (no file), "decode" (no PEM block in the
\* file) or "decrypt" (wrong secret).
DownloadPrivateKey(fs, secret, uid) ==
  IF uid \notin DOMAIN fs \/ fs[uid].private = NoFile
  THEN [ok |-> FALSE, err |-> "failed to read file private.pem", key |-> <<>>]
  ELSE IF Len(fs[uid].private) # 2
  THEN [ok |-> FALSE, err |-> "failed to decode PEM bytes", key |-> <<>>]
  ELSE IF fs[uid].private[2] # secret
  THEN [ok |-> FALSE, err |-> "failed to decrypt pem block", key |-> <<>>]
  ELSE [ok |-> TRUE, err |-> "", key |-> fs[uid].private[1]]

\* x509.DecryptPEMBlock cannot always tell a wrong password: when the padding
\* of the wrongly decrypted bytes happens to be valid it returns them without
\* an error, and x509.ParsePKCS8PrivateKey then fails on them. This is
\* DownloadPrivateKey on such a pair of file and secret.
DownloadPrivateKeyNoise(fs, secret, uid) ==
  IF /\ uid \in DOMAIN fs
     /\ Len(fs[uid].private) = 2
     /\ fs[uid].private[2] # secret
  THEN [ok |-> FALSE, err |-> "failed to analyze RSA private key", key |-> <<>>]
  ELSE DownloadPrivateKey(fs, secret, uid)

\* A download that hands back the bytes of the file unparsed, not the key
\* they encode: what C21 tells apart from DownloadPublicKey.
DownloadPublicKeyUnparsed(fs, uid) ==
  IF uid \notin DOMAIN fs \/ fs[uid].public = NoFile
  THEN [ok |-> FALSE, err |-> "failed to read file public.pem", key |-> <<>>]
  ELSE [ok |-> TRUE, err |-> "", key |-> fs[uid].public]

\* DownloadPublicKey: the PKIX key parsed from BASE_PATH/uid/public.pem.
DownloadPublicKey(fs, uid) ==
  IF uid \notin DOMAIN fs \/ fs[uid].public = NoFile
  THEN [ok |-> FALSE, err |-> "failed to read file public.pem", key |-> <<>>]
  ELSE [ok |-> TRUE, err |-> "", key |-> fs[uid].public[1]]

-----------------------------------------------------------------------------
(* Client, Cache, ForeignClient *)

\* The three hashes of NewLocalClient. The password is written into
\* addrHasher after its sum was taken; pwdHasher never receives a byte.
NodeAddressHash == Sha256Hex(Host)
AddressHash(address) == Sha256Hex(address)
PasswordHash(password) == Sha256Hex(<<>>)

\* CryptoResource.ImpersonatePrivateKey: the PKCS1 key as cleartext PEM,
\* kept in Client.PrivateKey (json:"-").
ImpersonatePrivateKey(key) == <<"pem", <<"pkcs1", key>>>>

\* A client document that marshals Client.PrivateKey as well: what C20 tells
\* apart from ClientDoc.
ClientDocWithPrivateKey(uid, accountId, alias, nodeHash, addrHash, clientId, pwdHash) ==
  [uid |-> uid, alias |-> alias, account_id |-> accountId, node |-> nodeHash,
   address |-> addrHash, client_id |-> clientId, password |-> pwdHash,
   private_key |-> ImpersonatePrivateKey(Key(uid))]

\* The client document: the json-tagged fields of Client.
ClientDoc(uid, accountId, alias, nodeHash, addrHash, clientId, pwdHash) ==
  [uid |-> uid, alias |-> alias, account_id |-> accountId, node |-> nodeHash,
   address |-> addrHash, client_id |-> clientId, password |-> pwdHash]

GenerateComputedKeyA(accountId) == <<"cka", accountId>>
GenerateComputedKeyP(hash) == <<"ckp", hash>>
\* int(binary.BigEndian.Uint64(sha256.Sum256(c.Password)[:8]))
PasswordDigest(pwdHash) == <<"u64", Sha256Hex(pwdHash)>>

\* Client.CreateCache (the timestamp, which no handler reads, is left out).
CreateCache(c, key) ==
  [computed_key_a |-> GenerateComputedKeyA(c.account_id),
   computed_key_p |-> GenerateComputedKeyP(PasswordDigest(c.password)),
   alias |-> c.alias,
   password |-> c.password,
   public_key |-> ImpersonatePublicKey(key)]

\* Client.SyncWithBacklog(cache): the cache document, then the client
\* document, each an IndexDocument keyed by the uid.
SyncCacheDocument(st, c, cache) == IndexDocument(st, "cache", c.uid, cache)
SyncClientDocument(st, c) == IndexDocument(st, "local_clients", c.uid, c)

\* MakeForeign and the document ForeignClient.SyncWithBacklog marshals:
\* the three tagged fields and the promoted fields of the embedded *Node.
MakeForeign(c) ==
  [client_id |-> c.client_id, node |-> c.node, address |-> c.address,
   syncer |-> "0.0.0.0", host |-> Host, version |-> nodeVersion, status |-> "alive"]

ForeignSyncWithBacklog(st, f) == IndexDocument(st, "clients", f.client_id, f)

\* Cache.Token: the two computed keys encrypted for the client's key pair.
Token(cache, key) == <<"tok", key, cache.computed_key_a, cache.computed_key_p>>

\* A decryption that yields a payload under any key: what C18 tells apart
\* from DecryptToken.
DecryptTokenAnyKey(key, token) ==
  IF Len(token) = 4 /\ token[1] = "tok"
  THEN [ok |-> TRUE, payload |-> [computed_key_a |-> token[3], computed_key_p |-> token[4]]]
  ELSE [ok |-> FALSE, payload |-> <<>>]

\* CryptoResource.DecryptToken with the private key read from disk.
DecryptToken(key, token) ==
  IF Len(token) = 4 /\ token[1] = "tok" /\ token[2] = key
  THEN [ok |-> TRUE, payload |-> [computed_key_a |-> token[3], computed_key_p |-> token[4]]]
  ELSE [ok |-> FALSE, payload |-> <<>>]

\* A comparison that never reports equality: what C28 tells apart from
\* compareDigest.
compareDigestNever(a, b) == FALSE

\* A comparison of the lengths alone: what C2 tells apart from compareDigest.
compareDigestLength(a, b) == Len(a) = Len(b)

\* subtle.ConstantTimeCompare(a, b) == 1
compareDigest(a, b) == a = b

-----------------------------------------------------------------------------
(* The state a process is started on *)

NoLoc == [op |-> "none"]
NoConn == [uid |-> 0, token |-> <<"none">>, password |-> <<>>]
NoOut == [h |-> 0, op |-> "none", kind |-> "none", err |-> "", status |-> -1,
          req |-> <<>>, res |-> <<>>]

Empty == <<>>

\* The client of an earlier registration, as NewLocalClient builds it.
SeedClient(i) ==
  ClientDoc(i, SeedAccount[i], SeedAlias[i], NodeAddressHash, AddressHash("10.0.0.7"),
            Identity(Key(i)), PasswordHash(Valid1Password))

SeedDocs(prov, n) ==
  [ix \in IndexNames |->
     CASE ix = "node" /\ prov -> (NodeHash :> NodeDoc("hibernating"))
       [] ix = "peers" /\ prov -> (NodeHash :> NodeDoc("hibernating"))
       [] ix = "local_clients" -> [i \in 1..n |-> SeedClient(i)]
       [] ix = "cache" -> [i \in 1..n |-> CreateCache(SeedClient(i), Key(i))]
       [] ix = "clients" ->
            [id \in {Identity(Key(i)) : i \in 1..n} |->
               MakeForeign(SeedClient(CHOOSE i \in 1..n : Identity(Key(i)) = id))]
       [] OTHER -> Empty]

SeedFiles(n) ==
  [u \in UIDs |->
     IF u <= n
     THEN [dir |-> TRUE, private |-> <<Key(u), SeedSecret[u]>>, public |-> <<Key(u)>>]
     ELSE NoDir]

SeedRegistered(n) ==
  [i \in 1..n |-> [alias |-> SeedAlias[i], secret |-> SeedSecret[i],
                   password |-> Valid1Password, addr |-> "10.0.0.7",
                   account_id |-> SeedAccount[i]]]

\* A fresh host (nothing exists), a provisioned store (the indices and the
\* node document exist) or a provisioned store holding n registered clients.
Init ==
  \E prov \in BOOLEAN, n \in 0..MaxSeeds :
    /\ (n > 0 => prov)
    /\ alive = FALSE
    /\ indices = IF prov THEN IndexNames ELSE {}
    /\ docs = SeedDocs(prov, n)
    /\ files = SeedFiles(n)
    /\ nextUid = n + 1
    /\ registered = SeedRegistered(n)
    /\ pc = [h \in Handlers |-> "idle"]
    /\ loc = [h \in Handlers |-> NoLoc]
    /\ held = [h \in Handlers |-> NoConn]
    /\ out = NoOut

-----------------------------------------------------------------------------
(* Steps shared by the handlers *)

SetStore(st) == indices' = st.indices /\ docs' = st.docs

\* A handler returns to its caller.
Reply(h, op, kind, err, status, req, res) ==
  /\ pc' = [pc EXCEPT ![h] = "idle"]
  /\ loc' = [loc EXCEPT ![h] = NoLoc]
  /\ out' = [h |-> h, op |-> op, kind |-> kind, err |-> err, status |-> status,
             req |-> req, res |-> res]

\* log.Fatalf in the handler of slot h: the process exits, every request in
\* flight is lost; the store and the key files stay as they are.
Fatalf(h, op, err, req) ==
  /\ alive' = FALSE
  /\ pc' = [g \in Handlers |-> "idle"]
  /\ loc' = [g \in Handlers |-> NoLoc]
  /\ out' = [h |-> h, op |-> op, kind |-> "crash", err |-> err, status |-> -1,
             req |-> req, res |-> <<>>]

\* A handler moves on without returning.
Goto(h, label, l) ==
  /\ pc' = [pc EXCEPT ![h] = label]
  /\ loc' = [loc EXCEPT ![h] = l]
  /\ out' = NoOut

\* main(): Initialize creates the indices, Attach writes the node document.
Start ==
  /\ ~alive
  /\ out = NoOut
  /\ alive' = TRUE
  /\ SetStore(Attach(Initialize(Store)))
  /\ out' = [NoOut EXCEPT !.op = "start", !.kind = "ok"]
  /\ UNCHANGED <<files, nextUid, registered, pc, loc, held>>

-----------------------------------------------------------------------------
(* CreateClient *)

\* A field check that forgets the secret: what C9 tells apart from
\* MissingField.
MissingFieldNoSecret(alias, password, secret) == alias = "" \/ password = <<>>

\* The first statement of CreateClient: a request needs all three fields.
MissingField(alias, password, secret) == alias = "" \/ password = <<>> \/ secret = ""

\* Requests between the alias check and the draw of their uid.
Drawing == Cardinality({g \in Handlers : pc[g] = "new_local_client"})

\* MeanderServer.CreateClient up to the call of NewLocalClient: the field
\* check, GetLocalNode, the alias search and the password policy.
CreateClient(h, alias, password, secret, addr) ==
  /\ alive
  /\ out = NoOut
  /\ pc[h] = "idle"
  /\ LET req == [alias |-> alias, password |-> password, secret |-> secret, addr |-> addr]
         results == FindDocument(Store, "local_clients", "alias", alias)
     IN IF MissingField(alias, password, secret)
        THEN /\ Reply(h, "create", "error", "create client request requires: alias, password, secret", -1, req, <<>>)
             /\ UNCHANGED alive
        ELSE IF ~GetLocalNodeOk(Store)
        THEN Fatalf(h, "create", "Failed to get the node elastic document", req)
        ELSE IF ~results.ok
        THEN /\ Reply(h, "create", "error", "failed to verify the existent document", -1, req, <<>>)
             /\ UNCHANGED alive
        ELSE IF results.hits # {}
        THEN /\ Reply(h, "create", "error", "invalid alias", -1, req, <<>>)
             /\ UNCHANGED alive
        ELSE IF ~isValid(password)
        THEN /\ Reply(h, "create", "error", "invalid password", -1, req, <<>>)
             /\ UNCHANGED alive
        ELSE /\ nextUid + Drawing <= MaxUid
             /\ Goto(h, "new_local_client", [op |-> "create", req |-> req])
             /\ UNCHANGED alive
  /\ UNCHANGED <<indices, docs, files, nextUid, registered, held>>

\* A registration that persists the client document first and leaves the
\* private key for later: what C14 tells apart from NewLocalClient.
NewLocalClientDocumentFirst(h) ==
  /\ alive
  /\ out = NoOut
  /\ pc[h] = "new_local_client"
  /\ nextUid <= MaxUid
  /\ \E accountId \in AccountIds :
       LET req == loc[h].req
           uid == nextUid
           key == Key(uid)
           client == ClientDoc(uid, accountId, req.alias, NodeAddressHash,
                               AddressHash(req.addr), Identity(key),
                               PasswordHash(req.password))
       IN /\ nextUid' = nextUid + 1
          /\ registered' = Put(registered, uid,
                               [alias |-> req.alias, secret |-> req.secret,
                                password |-> req.password, addr |-> req.addr,
                                account_id |-> accountId])
          /\ files' = [files EXCEPT ![uid].dir = TRUE]
          /\ SetStore(IndexRequest(Store, "local_clients", uid, client).st)
          /\ Goto(h, "upload_public", [op |-> "create", req |-> req, client |-> client, key |-> key])
  /\ UNCHANGED <<alive, held>>

\* Node.NewLocalClient up to the first key file: the hashes, the uuid, the
\* account id, the directory, and GenerateCrypto's NewCryptoResource and
\* UploadPrivateKey.
NewLocalClient(h) ==
  /\ alive
  /\ out = NoOut
  /\ pc[h] = "new_local_client"
  /\ nextUid <= MaxUid
  /\ \E accountId \in AccountIds :
       LET req == loc[h].req
           uid == nextUid
           key == Key(uid)
           client == ClientDoc(uid, accountId, req.alias, NodeAddressHash,
                               AddressHash(req.addr), Identity(key),
                               PasswordHash(req.password))
           made == [files EXCEPT ![uid].dir = TRUE]
           up == UploadPrivateKey(made, key, req.secret, uid)
       IN /\ nextUid' = nextUid + 1
          /\ registered' = Put(registered, uid,
                               [alias |-> req.alias, secret |-> req.secret,
                                password |-> req.password, addr |-> req.addr,
                                account_id |-> accountId])
          /\ files' = up.fs
          /\ IF up.ok
             THEN /\ Goto(h, "upload_public", [op |-> "create", req |-> req, client |-> client, key |-> key])
                  /\ UNCHANGED alive
             ELSE Fatalf(h, "create", "failed to upload private key", req)
  /\ UNCHANGED <<indices, docs, held>>

\* GenerateCrypto's UploadPublicKey.
GenerateCryptoPublic(h) ==
  /\ alive
  /\ out = NoOut
  /\ pc[h] = "upload_public"
  /\ LET up == UploadPublicKey(files, loc[h].key, loc[h].client.uid)
     IN /\ files' = up.fs
        /\ IF up.ok
           THEN /\ Goto(h, "sync_cache", loc[h])
                /\ UNCHANGED alive
           ELSE Fatalf(h, "create", "failed to upload public key", loc[h].req)
  /\ UNCHANGED <<indices, docs, nextUid, registered, held>>

\* Client.SyncWithBacklog(cache), first write: CreateCache and the cache
\* document. Registration and re-connection share it.
SyncCache(h) ==
  /\ alive
  /\ out = NoOut
  /\ pc[h] = "sync_cache"
  /\ LET c == loc[h].client
         r == SyncCacheDocument(Store, c, CreateCache(c, loc[h].key))
     IN /\ SetStore(r.st)
        /\ IF r.ok
           THEN /\ Goto(h, "sync_client", loc[h])
                /\ UNCHANGED alive
           ELSE Fatalf(h, loc[h].op, "failed to sync with backlog", loc[h].req)
  /\ UNCHANGED <<files, nextUid, registered, held>>

\* Client.SyncWithBacklog(cache), second write: the client document. A
\* re-connection then issues the token and returns the Connection; a
\* registration goes on to MakeForeign and ForeignClient.SyncWithBacklog and
\* returns the Client.
SyncClient(h) ==
  /\ alive
  /\ out = NoOut
  /\ pc[h] = "sync_client"
  /\ LET c == loc[h].client
         req == loc[h].req
         r == SyncClientDocument(Store, c)
         f == ForeignSyncWithBacklog(r.st, MakeForeign(c))
         token == Token(CreateCache(c, loc[h].key), loc[h].key)
     IN IF ~r.ok
        THEN /\ SetStore(r.st)
             /\ Fatalf(h, loc[h].op, "failed to sync with backlog", req)
             /\ UNCHANGED held
        ELSE IF loc[h].op = "connect"
        THEN /\ SetStore(r.st)
             /\ Reply(h, "connect", "ok", "", -1, req, [user_id |-> c.uid, token |-> token])
             /\ held' = [held EXCEPT ![h] = [uid |-> c.uid, token |-> token,
                                             password |-> req.password]]
             /\ UNCHANGED alive
        ELSE IF ~f.ok
        THEN /\ SetStore(f.st)
             /\ Fatalf(h, "create", "failed to sync foreign client with backlog", req)
             /\ UNCHANGED held
        ELSE /\ SetStore(f.st)
             /\ Reply(h, "create", "ok", "", -1, req,
                      [alias |-> c.alias, node |-> c.node, address |-> c.address, user_id |-> c.uid])
             /\ UNCHANGED <<alive, held>>
  /\ UNCHANGED <<files, nextUid, registered>>

-----------------------------------------------------------------------------
(* ConnectClient *)

\* MeanderServer.ConnectClient up to the call of RetrieveClient.
ConnectClient(h, alias, secret, password) ==
  /\ alive
  /\ out = NoOut
  /\ pc[h] = "idle"
  /\ LET req == [alias |-> alias, password |-> password, secret |-> secret]
         results == FindDocument(Store, "local_clients", "alias", alias)
     IN IF ~GetLocalNodeOk(Store)
        THEN Fatalf(h, "connect", "Failed to get the node elastic document", req)
        ELSE IF ~results.ok
        THEN /\ Reply(h, "connect", "error", "failed to verify the existent document", -1, req, <<>>)
             /\ UNCHANGED alive
        ELSE IF results.hits = {}
        THEN /\ Reply(h, "connect", "error", "not found", -1, req, <<>>)
             /\ UNCHANGED alive
        ELSE /\ \E uid \in results.hits :
                  Goto(h, "retrieve", [op |-> "connect", req |-> req, uid |-> uid])
             /\ UNCHANGED alive
  /\ UNCHANGED <<indices, docs, files, nextUid, registered, held>>

\* A RetrieveClient that calls GenerateCrypto where RetrieveCrypto is meant:
\* a new key pair is generated and uploaded over the client's key files.
\* What C26 tells apart from RetrieveClient.
RetrieveClientGenerateCrypto(h) ==
  /\ alive
  /\ out = NoOut
  /\ pc[h] = "retrieve"
  /\ LET uid == loc[h].uid
         req == loc[h].req
         key == Key(0)
         private == UploadPrivateKey(files, key, req.secret, uid)
         public == UploadPublicKey(private.fs, key, uid)
     IN IF ~GetDocumentOk(Store, "local_clients", uid)
        THEN /\ Fatalf(h, "connect", "failed to retrieve the client document", req)
             /\ UNCHANGED files
        ELSE IF ~private.ok
        THEN /\ Fatalf(h, "connect", "failed to upload private key", req)
             /\ files' = private.fs
        ELSE IF ~public.ok
        THEN /\ Fatalf(h, "connect", "failed to upload public key", req)
             /\ files' = public.fs
        ELSE LET document == GetDocument(Store, "local_clients", uid)
                 client == ClientDoc(uid, document.account_id, document.alias,
                                     document.node, document.address,
                                     Identity(key), document.password)
             IN /\ files' = public.fs
                /\ Goto(h, "sync_cache", [op |-> "connect", req |-> req, client |-> client, key |-> key])
                /\ UNCHANGED alive
  /\ UNCHANGED <<indices, docs, nextUid, registered, held>>

\* A RetrieveClient that draws another account id for the client on every
\* re-connection, as NewLocalClient does at registration: what C25 tells
\* apart from RetrieveClient.
RetrieveClientNewAccount(h) ==
  /\ alive
  /\ out = NoOut
  /\ pc[h] = "retrieve"
  /\ LET uid == loc[h].uid
         req == loc[h].req
         private == DownloadPrivateKey(files, req.secret, uid)
         public == DownloadPublicKey(files, uid)
     IN IF ~GetDocumentOk(Store, "local_clients", uid)
        THEN Fatalf(h, "connect", "failed to retrieve the client document", req)
        ELSE IF ~private.ok
        THEN Fatalf(h, "connect", "failed to download private key", req)
        ELSE IF ~public.ok
        THEN Fatalf(h, "connect", "failed to download public key", req)
        ELSE LET document == GetDocument(Store, "local_clients", uid)
             IN \E accountId \in AccountIds \ {document.account_id} :
                  /\ Goto(h, "sync_cache",
                          [op |-> "connect", req |-> req, key |-> public.key,
                           client |-> ClientDoc(uid, accountId, document.alias,
                                                document.node, document.address,
                                                Identity(public.key), document.password)])
                  /\ UNCHANGED alive
  /\ UNCHANGED <<indices, docs, files, nextUid, registered, held>>

\* A RetrieveClient that hashes the password of the request into the client
\* and leaves the stored hash unread: what C24 tells apart from
\* RetrieveClient.
RetrieveClientRequestPassword(h) ==
  /\ alive
  /\ out = NoOut
  /\ pc[h] = "retrieve"
  /\ LET uid == loc[h].uid
         req == loc[h].req
         private == DownloadPrivateKey(files, req.secret, uid)
         public == DownloadPublicKey(files, uid)
     IN IF ~GetDocumentOk(Store, "local_clients", uid)
        THEN Fatalf(h, "connect", "failed to retrieve the client document", req)
        ELSE IF ~private.ok
        THEN Fatalf(h, "connect", "failed to download private key", req)
        ELSE IF ~public.ok
        THEN Fatalf(h, "connect", "failed to download public key", req)
        ELSE LET document == GetDocument(Store, "local_clients", uid)
                 client == ClientDoc(uid, document.account_id, document.alias,
                                     document.node, document.address,
                                     Identity(public.key), Sha256Hex(req.password))
             IN /\ Goto(h, "sync_cache", [op |-> "connect", req |-> req, client |-> client, key |-> public.key])
                /\ UNCHANGED alive
  /\ UNCHANGED <<indices, docs, files, nextUid, registered, held>>

\* Node.RetrieveClient up to CreateCache: the client document, RetrieveCrypto
\* (log.Fatalf on either key file) and the identity.
RetrieveClient(h) ==
  /\ alive
  /\ out = NoOut
  /\ pc[h] = "retrieve"
  /\ LET uid == loc[h].uid
         req == loc[h].req
         private == DownloadPrivateKey(files, req.secret, uid)
         public == DownloadPublicKey(files, uid)
     IN IF ~GetDocumentOk(Store, "local_clients", uid)
        THEN Fatalf(h, "connect", "failed to retrieve the client document", req)
        ELSE IF ~private.ok
        THEN Fatalf(h, "connect", "failed to download private key", req)
        ELSE IF ~public.ok
        THEN Fatalf(h, "connect", "failed to download public key", req)
        ELSE LET document == GetDocument(Store, "local_clients", uid)
                 client == ClientDoc(uid, document.account_id, document.alias,
                                     document.node, document.address,
                                     Identity(public.key), document.password)
             IN /\ Goto(h, "sync_cache", [op |-> "connect", req |-> req, client |-> client, key |-> public.key])
                /\ UNCHANGED alive
  /\ UNCHANGED <<indices, docs, files, nextUid, registered, held>>

-----------------------------------------------------------------------------
(* ValidateToken *)

\* The tokens a caller can present: the ones the peers hold, and tokens
\* made with the public key of the uid from chosen computed keys.
ForgedKeysA == {GenerateComputedKeyA(a) : a \in AccountIds}
ForgedKeysP == {GenerateComputedKeyP(PasswordDigest(Sha256Hex(p))) : p \in {<<>>, Valid1Password}}
TokenInputs(uid) ==
  {held[g].token : g \in Handlers}
    \cup {<<"tok", Key(uid), a, p>> : a \in ForgedKeysA, p \in ForgedKeysP}

\* MeanderServer.ValidateToken up to the decrypted payload.
ValidateToken(h, uid, secret, token) ==
  /\ alive
  /\ out = NoOut
  /\ pc[h] = "idle"
  /\ LET req == [user_id |-> uid, secret |-> secret, token |-> token]
         privateKey == DownloadPrivateKey(files, secret, uid)
         publicKey == DownloadPublicKey(files, uid)
         payload == DecryptToken(privateKey.key, token)
     IN IF ~privateKey.ok
        THEN Reply(h, "validate", "error", "failed to download private key", -1, req, <<>>)
        ELSE IF ~publicKey.ok
        THEN Reply(h, "validate", "error", "failed to download public key", -1, req, <<>>)
        ELSE IF ~payload.ok
        THEN Reply(h, "validate", "error", "failed to decrypt the token", -1, req, <<>>)
        ELSE Goto(h, "compare", [op |-> "validate", req |-> req, payload |-> payload.payload])
  /\ UNCHANGED <<alive, indices, docs, files, nextUid, registered, held>>

\* The rest of ValidateToken: the cache document and the two comparisons.
ValidateCompare(h) ==
  /\ alive
  /\ out = NoOut
  /\ pc[h] = "compare"
  /\ LET req == loc[h].req
         payload == loc[h].payload
     IN IF ~GetDocumentOk(Store, "cache", req.user_id)
        THEN Reply(h, "validate", "error", "failed to get cache document", -1, req, <<>>)
        ELSE LET cache == GetDocument(Store, "cache", req.user_id)
                 res == [payload |-> payload,
                         cache |-> [computed_key_a |-> cache.computed_key_a,
                                    computed_key_p |-> cache.computed_key_p]]
                 matchA == compareDigest(cache.computed_key_a, payload.computed_key_a)
                 matchP == compareDigest(cache.computed_key_p, payload.computed_key_p)
             IN IF ~matchA
                THEN Reply(h, "validate", "commit", "The computed key A doesn't match", 1, req, res)
                ELSE IF ~matchP
                THEN Reply(h, "validate", "commit", "The computed key P doesn't match", 1, req, res)
                ELSE Reply(h, "validate", "commit", "", 0, req, res)
  /\ UNCHANGED <<alive, indices, docs, files, nextUid, registered, held>>

-----------------------------------------------------------------------------
(* The service *)

\* The response (or the exit of the process) reaches the caller.
Return ==
  /\ out # NoOut
  /\ out' = NoOut
  /\ UNCHANGED <<alive, indices, docs, files, nextUid, registered, pc, loc, held>>

Next ==
  \/ Start
  \/ Return
  \/ \E h \in Handlers :
       \/ \E alias \in Aliases, password \in CreatePasswords, secret \in CreateSecrets, addr \in PeerAddrs :
            CreateClient(h, alias, password, secret, addr)
       \/ NewLocalClient(h)
       \/ GenerateCryptoPublic(h)
       \/ SyncCache(h)
       \/ SyncClient(h)
       \/ \E alias \in ConnectAliases, password \in ConnectPasswords, secret \in ConnectSecrets :
            ConnectClient(h, alias, secret, password)
       \/ RetrieveClient(h)
       \/ \E uid \in UIDs, secret \in ConnectSecrets :
            \E token \in TokenInputs(uid) : ValidateToken(h, uid, secret, token)
       \/ ValidateCompare(h)

Spec == Init /\ [][Next]_vars

-----------------------------------------------------------------------------
(* The password policy on its own: CreateClient applied, on every kind of   *)
(* deployment, to passwords around the length and character-class limits.  *)

MaxPad == 8
MaxTail == 2

PolicyChars == {"a", "A", "1", "-"}

RECURSIVE Repeat(_, _)
Repeat(char, k) == IF k = 0 THEN <<>> ELSE <<char>> \o Repeat(char, k - 1)

PolicyPasswords ==
  {Repeat(char, k) \o tail :
     char \in PolicyChars, k \in 0..MaxPad,
     tail \in UNION {[1..m -> PolicyChars] : m \in 0..MaxTail}}

PolicyNext ==
  \/ Start
  \/ Return
  \/ \E password \in PolicyPasswords : CreateClient(1, "zed", password, "s1", "10.0.0.7")

SpecPolicy == Init /\ [][PolicyNext]_vars

-----------------------------------------------------------------------------
(* The store alone: Backlog.IndexDocument and Backlog.UpdateDocument called *)
(* with chosen arguments on each store a host can hold.                     *)

\* The (collection, id) pairs written: a cache document by its uid, a peer
\* document by the hash of its host.
StoreTargets ==
  {<<"cache", 1>>, <<"cache", 2>>,
   <<"peers", NodeHash>>, <<"peers", Sha256Hex("198.51.100.9")>>}
StoreDocuments ==
  {[alias |-> "bob"], [alias |-> "zed"], [alias |-> "zed", status |-> "alive"]}

IndexDocumentCall(index, id, document) ==
  LET r == IndexDocument(Store, index, id, document)
  IN /\ SetStore(r.st)
     /\ out' = [NoOut EXCEPT !.op = "index",
                             !.kind = IF r.ok THEN "ok" ELSE "error",
                             !.req = [index |-> index, id |-> id, document |-> document]]
     /\ UNCHANGED <<alive, files, nextUid, registered, pc, loc, held>>

UpdateDocumentCall(index, id, document) ==
  LET r == UpdateDocument(Store, index, id, document)
  IN /\ SetStore(r.st)
     /\ out' = [NoOut EXCEPT !.op = "update",
                             !.kind = IF r.ok THEN "ok" ELSE "error",
                             !.req = [index |-> index, id |-> id, document |-> document]]
     /\ UNCHANGED <<alive, files, nextUid, registered, pc, loc, held>>

StoreNext ==
  \E target \in StoreTargets, document \in StoreDocuments :
    \/ IndexDocumentCall(target[1], target[2], document)
    \/ UpdateDocumentCall(target[1], target[2], document)

SpecStore == Init /\ [][StoreNext]_vars

-----------------------------------------------------------------------------
(* The service with its exit handler *)

\* registerExitHandler: on SIGINT or SIGTERM the process runs Dettach and
\* exits; the requests in flight are lost.
Signal ==
  /\ alive
  /\ out = NoOut
  /\ alive' = FALSE
  /\ SetStore(Dettach(Store))
  /\ pc' = [g \in Handlers |-> "idle"]
  /\ loc' = [g \in Handlers |-> NoLoc]
  /\ out' = [NoOut EXCEPT !.op = "signal", !.kind = "exit"]
  /\ UNCHANGED <<files, nextUid, registered, held>>

LifeNext == Next \/ Signal

SpecLife == Init /\ [][LifeNext]_vars

-----------------------------------------------------------------------------
(* Transactions: Client.NewTransaction and Transaction.SignTransaction      *)
(* called with chosen arguments on each content of "clients".               *)

MaxValue == 2
Values == 1..MaxValue
Timestamps == {1700000000, 1700000001}
TransactionIds == {"t1"}
NoSignature == <<>>

\* The identity strings a caller can name as recipient: those of the keys of
\* the uids and one that belongs to no client.
Recipients == {Identity(Key(u)) : u \in UIDs \cup {0}}

\* The foreign document of the client with key u, as MakeForeign derives it.
ForeignOf(u) ==
  MakeForeign(ClientDoc(u, "acc1", "bob", NodeAddressHash, AddressHash("10.0.0.7"),
                        Identity(Key(u)), PasswordHash(Valid1Password)))

\* FindDocument("clients", "client_id", clientId): an identity string is one
\* lowercase token, which the match query compares as it is. ok is FALSE when
\* the search is an error; no hit is no error.
FindForeignDocument(st, clientId) ==
  IF "clients" \notin st.indices
  THEN [ok |-> FALSE, hits |-> {}]
  ELSE [ok |-> TRUE,
        hits |-> {id \in DOMAIN st.docs["clients"] : st.docs["clients"][id].client_id = clientId}]

\* Node.RetrieveForeignClient: the error of the search is returned; with no
\* hit FindDocument returns a nil map and no error, and the type assertion
\* document["client_id"].(string) on the nil value panics.
RetrieveForeignClient(st, clientId) ==
  LET found == FindForeignDocument(st, clientId)
  IN IF ~found.ok
     THEN [kind |-> "error", client |-> <<>>]
     ELSE IF found.hits = {}
     THEN [kind |-> "panic", client |-> <<>>]
     ELSE LET document == st.docs["clients"][CHOOSE id \in found.hits : TRUE]
          IN [kind |-> "ok",
              client |-> [client_id |-> document.client_id, node |-> document.node,
                          address |-> document.address]]

\* Client.NewTransaction: nil on an error of RetrieveForeignClient, else the
\* unsigned transaction.
NewTransaction(st, sender, rcp, value, id, timestamp) ==
  LET recipient == RetrieveForeignClient(st, rcp)
  IN IF recipient.kind = "panic"
     THEN [kind |-> "panic", transaction |-> <<>>]
     ELSE IF recipient.kind = "error"
     THEN [kind |-> "nil", transaction |-> <<>>]
     ELSE [kind |-> "ok",
           transaction |-> [transaction_id |-> id, sender |-> Identity(Key(sender)),
                            recipient |-> recipient.client.client_id, value |-> value,
                            timestamp |-> timestamp, signature |-> NoSignature]]

\* Transaction.ToBytes: sender and recipient identity, value and timestamp.
ToBytes(t) ==
  <<"json", [sender |-> t.sender, recipient |-> t.recipient, value |-> t.value,
             timestamp |-> t.timestamp]>>

\* CryptoResource.CreateSignature: PKCS1v15 over the SHA-256 of the bytes.
CreateSignature(key, bytes) == <<"pkcs1v15", key, Sha256Hex(bytes)>>

\* Transaction.SignTransaction: the signature is set, then the transaction
\* is written to "transactions"; the error of the write is returned.
SignTransaction(st, key, t) ==
  LET signed == [t EXCEPT !.signature = CreateSignature(key, ToBytes(t))]
      r == IndexDocument(st, "transactions", t.transaction_id, signed)
  IN [ok |-> r.ok, st |-> r.st, transaction |-> signed]

\* The stores the calls are made on: "clients" and "transactions" exist or
\* not, and "clients" holds the foreign documents of some of the clients.
InitTransaction ==
  \E created \in BOOLEAN, known \in SUBSET UIDs :
    /\ (~created => known = {})
    /\ alive = FALSE
    /\ indices = IF created THEN IndexNames ELSE {}
    /\ docs = [ix \in IndexNames |->
                 IF ix = "clients"
                 THEN [id \in {Identity(Key(u)) : u \in known} |->
                         ForeignOf(CHOOSE u \in known : Identity(Key(u)) = id)]
                 ELSE Empty]
    /\ files = SeedFiles(0)
    /\ nextUid = 1
    /\ registered = SeedRegistered(0)
    /\ pc = [h \in Handlers |-> "idle"]
    /\ loc = [h \in Handlers |-> NoLoc]
    /\ held = [h \in Handlers |-> NoConn]
    /\ out = NoOut

NewTransactionCall(sender, rcp, value, id, timestamp) ==
  LET r == NewTransaction(Store, sender, rcp, value, id, timestamp)
  IN /\ out' = [NoOut EXCEPT !.op = "new_transaction",
                             !.kind = r.kind,
                             !.req = [sender |-> sender, rcp |-> rcp, value |-> value,
                                      timestamp |-> timestamp],
                             !.res = r.transaction]
     /\ UNCHANGED <<alive, indices, docs, files, nextUid, registered, pc, loc, held>>

SignTransactionCall ==
  /\ out.op = "new_transaction"
  /\ out.kind = "ok"
  /\ LET r == SignTransaction(Store, Key(out.req.sender), out.res)
     IN /\ SetStore(r.st)
        /\ out' = [out EXCEPT !.op = "sign",
                              !.kind = IF r.ok THEN "ok" ELSE "error",
                              !.res = r.transaction]
  /\ UNCHANGED <<alive, files, nextUid, registered, pc, loc, held>>

TransactionNext ==
  \/ \E sender \in UIDs, rcp \in Recipients, value \in Values,
         id \in TransactionIds, timestamp \in Timestamps :
       NewTransactionCall(sender, rcp, value, id, timestamp)
  \/ SignTransactionCall

SpecTransaction == InitTransaction /\ [][TransactionNext]_vars

-----------------------------------------------------------------------------
(* Account ids: generateAccountId on chosen outcomes of its random draws    *)

AccountIdSize == 15
NumDraws == 20
MaxFreeDraws == 3

\* Outcomes of rand.Intn(41) + 5: both ends, their neighbours and the middle.
DrawValues == {5, 6, 25, 44, 45}

\* The 20 draws: the first MaxFreeDraws are free, the others repeat one
\* value.
BaseIDs ==
  {[i \in 1..NumDraws |-> IF i <= MaxFreeDraws THEN free[i] ELSE rest] :
     free \in [1..MaxFreeDraws -> DrawValues], rest \in DrawValues}

\* strconv.Itoa of a natural number, as a sequence of characters.
DigitOf(d) == <<"0", "1", "2", "3", "4", "5", "6", "7", "8", "9">>[d + 1]
RECURSIVE Itoa(_)
Itoa(n) == IF n < 10 THEN <<DigitOf(n)>> ELSE Itoa(n \div 10) \o <<DigitOf(n % 10)>>

\* The loop over the pairs: the decimal text of each pair sum, appended.
RECURSIVE RawAccountID(_, _)
RawAccountID(baseID, i) ==
  IF i > Len(baseID)
  THEN <<>>
  ELSE LET pairSum == baseID[i] + (IF i + 1 <= Len(baseID) THEN baseID[i + 1] ELSE 0)
       IN Itoa(pairSum) \o RawAccountID(baseID, i + 2)

RECURSIVE Pow10(_)
Pow10(k) == IF k = 0 THEN 1 ELSE 10 * Pow10(k - 1)

\* An account id that keeps the whole text of the pair sums: what C35 tells
\* apart from generateAccountId.
generateAccountIdUncut(baseID, pad) == RawAccountID(baseID, 1)

\* generateAccountId after its draws: the text is cut to 15 characters, or
\* padded with a random number of the missing length; pad chooses the least
\* or the greatest outcome of that draw.
generateAccountId(baseID, pad) ==
  LET rawAccountID == RawAccountID(baseID, 1)
      residual == AccountIdSize - Len(rawAccountID)
  IN IF Len(rawAccountID) > AccountIdSize
     THEN SubSeq(rawAccountID, 1, AccountIdSize)
     ELSE IF Len(rawAccountID) < AccountIdSize
     THEN LET point0 == IF residual # 1 THEN Pow10(residual - 1) ELSE 0
              pointf == Pow10(residual) - 1
          IN rawAccountID \o Itoa(IF pad = 0 THEN point0 ELSE pointf)
     ELSE rawAccountID

generateAccountIdCall(baseID, pad) ==
  /\ out = NoOut
  /\ out' = [NoOut EXCEPT !.op = "account_id", !.kind = "ok",
                          !.req = [baseID |-> baseID, pad |-> pad],
                          !.res = generateAccountId(baseID, pad)]
  /\ UNCHANGED <<alive, indices, docs, files, nextUid, registered, pc, loc, held>>

AccountNext ==
  \/ \E baseID \in BaseIDs, pad \in {0, 1} : generateAccountIdCall(baseID, pad)
  \/ Return

SpecAccount == Init /\ [][AccountNext]_vars

-----------------------------------------------------------------------------
(* The key files alone: DownloadPrivateKey called with chosen arguments on  *)
(* each content the account directories can have.                          *)

\* What BASE_PATH/uid can hold: no directory, or a directory whose
\* private.pem is absent, corrupt or encrypted under some secret and whose
\* public.pem is absent or written.
KeyDirectories(u) ==
  {NoDir} \cup
    [dir : {TRUE},
     private : {NoFile, CorruptFile} \cup {<<Key(u), s>> : s \in ConnectSecrets},
     public : {NoFile, <<Key(u)>>}]

InitKeys ==
  /\ alive = FALSE
  /\ indices = {}
  /\ docs = SeedDocs(FALSE, 0)
  /\ files \in {fs \in [UIDs -> UNION {KeyDirectories(u) : u \in UIDs}] :
                  \A u \in UIDs : fs[u] \in KeyDirectories(u)}
  /\ nextUid = 1
  /\ registered = SeedRegistered(0)
  /\ pc = [h \in Handlers |-> "idle"]
  /\ loc = [h \in Handlers |-> NoLoc]
  /\ held = [h \in Handlers |-> NoConn]
  /\ out = NoOut

DownloadPrivateKeyCall(uid, secret) ==
  \E r \in {DownloadPrivateKey(files, secret, uid), DownloadPrivateKeyNoise(files, secret, uid)} :
    /\ out' = [NoOut EXCEPT !.op = "download",
                            !.kind = IF r.ok THEN "ok" ELSE "error",
                            !.err = r.err,
                            !.req = [uid |-> uid, secret |-> secret],
                            !.res = r.key]
    /\ UNCHANGED <<alive, indices, docs, files, nextUid, registered, pc, loc, held>>

KeysNext == \E uid \in UIDs, secret \in ConnectSecrets : DownloadPrivateKeyCall(uid, secret)

SpecKeys == InitKeys /\ [][KeysNext]_vars

-----------------------------------------------------------------------------
(* Vocabulary of the properties *)

\* The request lacks one of its three fields.
HasEmptyField(req) == req.alias = "" \/ req.password = <<>> \/ req.secret = ""

ClientDocs == docs["local_clients"]

\* The policy as the specification words it.
MeetsPolicy(password) ==
  /\ Len(password) >= 10
  /\ \E i \in DOMAIN password : password[i] \in LowerChars
  /\ \E i \in DOMAIN password : password[i] \in UpperChars
  /\ \E i \in DOMAIN password : password[i] \in DigitChars

\* No client document carries the alias.
AliasUnused(alias) == \A id \in DOMAIN ClientDocs : ClientDocs[id].alias # alias

\* No registration, finished or not, was ever made under the alias.
NeverRegistered(alias) == \A uid \in DOMAIN registered : registered[uid].alias # alias

\* The token was returned by a ConnectClient for this uid.
IssuedFor(uid, token) == \E g \in Handlers : held[g].uid = uid /\ held[g].token = token

ValidateAnswered == out.op = "validate" /\ out.kind = "commit"

-----------------------------------------------------------------------------
(* C1: for every (alias, password, secret) with an unused alias and a       *)
(* password that satisfies the policy, CreateClient succeeds, and a later   *)
(* ConnectClient with the same secret followed by ValidateToken with the    *)
(* returned user id and token and the same secret ends with status 0.       *)
C1_RegisterConnectValidate ==
  /\ (/\ out.op = "create"
      /\ ~HasEmptyField(out.req)
      /\ MeetsPolicy(out.req.password)
      /\ AliasUnused(out.req.alias))
       => out.kind = "ok"
  /\ (/\ out.op = "validate"
      /\ out.req.user_id \in DOMAIN registered
      /\ IssuedFor(out.req.user_id, out.req.token)
      /\ out.req.secret = registered[out.req.user_id].secret)
       => (out.kind = "commit" /\ out.status = 0)

-----------------------------------------------------------------------------
(* C2: ValidateToken answers status 0 only if the decrypted token's          *)
(* computed key A equals the computed key A of the cache document of the    *)
(* same user id and the token's computed key P equals the cache's; when     *)
(* only one of the two matches the answer is status 1.                      *)
C2_AcceptedOnlyIfBothMatch ==
  ValidateAnswered =>
    LET uid == out.req.user_id
        payload == DecryptToken(files[uid].private[1], out.req.token).payload
        cache == docs["cache"][uid]
        sameA == payload.computed_key_a = cache.computed_key_a
        sameP == payload.computed_key_p = cache.computed_key_p
    IN /\ out.status \in {0, 1}
       /\ out.status = 0 <=> (sameA /\ sameP)
       /\ (sameA # sameP) => out.status = 1

\* A token with the right key A and a wrong key P was answered.
C2_Witness ==
  /\ ValidateAnswered
  /\ out.status = 1
  /\ out.res.payload.computed_key_a = out.res.cache.computed_key_a
  /\ out.res.payload.computed_key_p # out.res.cache.computed_key_p

-----------------------------------------------------------------------------
(* C3: for every registered client, when the secret supplied at             *)
(* ConnectClient differs from the one used at CreateClient, the caller goes *)
(* on to ValidateToken and ValidateToken fails with commit status 1.        *)
C3_WrongSecretStatus1 ==
  /\ (/\ out.op = "connect"
      /\ \E uid \in DOMAIN ClientDocs :
           /\ ClientDocs[uid].alias = out.req.alias
           /\ registered[uid].secret # out.req.secret)
       => out.kind # "crash"
  /\ (/\ out.op = "validate"
      /\ out.req.user_id \in DOMAIN ClientDocs
      /\ registered[out.req.user_id].secret # out.req.secret)
       => (out.kind = "commit" /\ out.status = 1)

-----------------------------------------------------------------------------
(* C4: a ConnectClient made with the right alias and secret and a password  *)
(* other than the one given at CreateClient never leads to an accepted      *)
(* validation: ValidateToken on the token it returned is not status 0.      *)
C4_WrongPasswordNeverAccepted ==
  (ValidateAnswered /\ out.status = 0) =>
    \A g \in Handlers :
      (held[g].uid = out.req.user_id /\ held[g].token = out.req.token)
        => held[g].password = registered[out.req.user_id].password

-----------------------------------------------------------------------------
-----------------------------------------------------------------------------
(* C6: for any interleaving of concurrent CreateClient requests with        *)
(* distinct aliases, every request's documents and key files end up as if   *)
(* the request had run alone.  Alone, NewLocalClient makes the directory,   *)
(* writes both key files and then the documents, as far as the store lets   *)
(* it.                                                                      *)
Without(d, id) == [x \in DOMAIN d \ {id} |-> d[x]]

RegisteredClient(uid) ==
  ClientDoc(uid, registered[uid].account_id, registered[uid].alias, NodeAddressHash,
            AddressHash(registered[uid].addr), Identity(Key(uid)),
            PasswordHash(registered[uid].password))

KeysWrittenAlone(uid) ==
  LET made == [files EXCEPT ![uid] = [NoDir EXCEPT !.dir = TRUE]]
      a == UploadPrivateKey(made, Key(uid), registered[uid].secret, uid).fs
  IN UploadPublicKey(a, Key(uid), uid).fs[uid]

DocsWrittenAlone(uid) ==
  LET c == RegisteredClient(uid)
      st0 == [indices |-> indices,
              docs |-> [docs EXCEPT !["cache"] = Without(@, uid),
                                    !["local_clients"] = Without(@, uid),
                                    !["clients"] = Without(@, c.client_id)]]
      a == SyncCacheDocument(st0, c, CreateCache(c, Key(uid)))
      b == SyncClientDocument(a.st, c)
      f == ForeignSyncWithBacklog(b.st, MakeForeign(c))
      st == IF ~a.ok THEN a.st ELSE IF ~b.ok THEN b.st ELSE f.st
  IN [cache |-> uid \in DOMAIN st.docs["cache"],
      client |-> uid \in DOMAIN st.docs["local_clients"],
      foreign |-> c.client_id \in DOMAIN st.docs["clients"]]

DocsOf(uid) ==
  [cache |-> uid \in DOMAIN docs["cache"],
   client |-> uid \in DOMAIN docs["local_clients"],
   foreign |-> Identity(Key(uid)) \in DOMAIN docs["clients"]]

\* Checked when a registration has ended the process on a node without
\* clients that served nothing but registrations under distinct aliases: no
\* request is running any more.
C6_ConcurrentAsAlone ==
  (/\ out.op = "create" /\ out.kind = "crash"
   /\ GetLocalNodeOk(Store)
   /\ DOMAIN ClientDocs = {}
   /\ \A u, v \in DOMAIN registered : registered[u].alias = registered[v].alias => u = v)
    => \A uid \in DOMAIN registered :
         /\ files[uid] = KeysWrittenAlone(uid)
         /\ DocsOf(uid) = DocsWrittenAlone(uid)

-----------------------------------------------------------------------------
(* C7: ConnectClient with an alias under which no client was ever           *)
(* registered answers 'not found': the process does not end, no connection  *)
(* is returned and the request goes no further than the alias search.       *)
C7_UnknownAliasNotFound ==
  /\ (out.op = "connect" /\ NeverRegistered(out.req.alias))
       => (out.kind = "error" /\ out.err = "not found" /\ alive)
  /\ \A h \in Handlers :
       loc[h].op = "connect" => ~NeverRegistered(loc[h].req.alias)

-----------------------------------------------------------------------------
(* C8: a CreateClient request with its three fields, on a node whose node   *)
(* document is readable and whose client index has no client under the      *)
(* alias,                                                                   *)
(* goes on to NewLocalClient if and only if the password has at least 10    *)
(* characters, a lowercase letter, an uppercase letter and a digit; when    *)
(* the password is not empty and fails this, the answer is 'invalid         *)
(* password'; the empty password is answered with the missing-fields error. *)
FieldsError == "create client request requires: alias, password, secret"

-----------------------------------------------------------------------------
(* C9: CreateClient with an empty alias, an empty password or an empty      *)
(* secret answers with an error in its first step; the step leaves the      *)
(* store, the key files and the process as they are, and no request with    *)
(* an empty field is ever in flight.                                        *)
C9_Step ==
  /\ (out' # out /\ out'.op = "create"
        /\ HasEmptyField(out'.req))
       => (/\ out'.kind = "error"
           /\ out'.err = FieldsError
           /\ UNCHANGED <<alive, indices, docs, files, nextUid, registered>>)
  /\ \A h \in Handlers :
       loc'[h].op = "create"
         => ~HasEmptyField(loc'[h].req)

C9_EmptyFieldRejectedFirst == [][C9_Step]_vars

\* A request without a secret was refused on a node whose node document
\* cannot be read: the refusal came before GetLocalNode.
C9_Witness ==
  /\ out.op = "create" /\ out.kind = "error" /\ out.err = FieldsError
  /\ out.req.alias # "" /\ out.req.password # <<>> /\ out.req.secret = ""
  /\ alive
  /\ ~GetLocalNodeOk(Store)

-----------------------------------------------------------------------------
(* C10: CreateClient with an alias that a client document of the node       *)
(* carries, or with a password that violates the policy, answers with an    *)
(* error and goes no further: the process lives on and the request never    *)
(* reaches NewLocalClient.                                                  *)
C10_RejectedCreatesNothing ==
  /\ (out.op = "create"
        /\ (~AliasUnused(out.req.alias) \/ ~MeetsPolicy(out.req.password)))
       => (out.kind = "error" /\ alive)
  /\ \A h \in Handlers :
       loc[h].op = "create"
         => (loc[h].req.password # <<>> /\ MeetsPolicy(loc[h].req.password))

-----------------------------------------------------------------------------
(* C11: IndexDocument(collection, id, document) creates the document when   *)
(* the id is absent and replaces it when the id is present; after the call  *)
(* GetDocument(collection, id) returns the given document in both cases.    *)
C11_UpsertCreatesOrReplaces ==
  out.op = "index" =>
    /\ out.kind = "ok"
    /\ GetDocumentOk(Store, out.req.index, out.req.id)
    /\ GetDocument(Store, out.req.index, out.req.id) = out.req.document

-----------------------------------------------------------------------------
(* C12: IndexDocument called a second time with the same collection, id and *)
(* document leaves the store as the first call left it and has the outcome  *)
(* of the first call, whether the id was absent or present at the first     *)
(* call.                                                                    *)
C12_UpsertIdempotent ==
  out.op = "index" =>
    LET again == IndexDocument(Store, out.req.index, out.req.id, out.req.document)
    IN /\ again.st = Store
       /\ again.ok = (out.kind = "ok")

\* A first call that replaced a document which differed from the given one.
C12_Witness ==
  /\ out.op = "index" /\ out.kind = "ok"
  /\ GetDocument(Store, out.req.index, out.req.id) = out.req.document
  /\ out.req.index = "cache"
  /\ docs["local_clients"][out.req.id].alias # out.req.document.alias

-----------------------------------------------------------------------------
(* C13: a registration goes through its steps in one order: key             *)
(* generation and the private-key file, the public-key file, the cache      *)
(* (computed, then persisted), the client document, the foreign document.   *)
(* At each point every earlier step has succeeded and no later one has      *)
(* started.                                                                 *)
HasPrivateKey(uid, key, secret) == files[uid].private = <<key, secret>>
HasPublicKey(uid, key) == files[uid].public = <<key>>
HasCache(uid) == "cache" \in indices /\ uid \in DOMAIN docs["cache"]
HasClient(uid) == "local_clients" \in indices /\ uid \in DOMAIN docs["local_clients"]
HasForeign(clientId) == "clients" \in indices /\ clientId \in DOMAIN docs["clients"]

-----------------------------------------------------------------------------
-----------------------------------------------------------------------------
(* C15: a ValidateToken that rejects a token for a computed-key mismatch    *)
(* gives the caller one and the same response whether key A or key P        *)
(* failed: every such response equals the one given for a mismatch of A.    *)
RejectionA == "The computed key A doesn't match"

C15_MismatchUniform ==
  (ValidateAnswered /\ out.status = 1) => out.err = RejectionA

-----------------------------------------------------------------------------
(* C16: every internal failure of ValidateToken (wrong secret or missing    *)
(* key pair, token decryption, missing cache document) reaches the caller   *)
(* as one and the same result: every such result equals the one given for   *)
(* a private key that cannot be loaded.                                     *)
FailurePrivateKey == "failed to download private key"

C16_FailureUniform ==
  (out.op = "validate" /\ out.kind = "error") => out.err = FailurePrivateKey

-----------------------------------------------------------------------------
(* C17: every failure inside CreateClient, ConnectClient or ValidateToken   *)
(* is returned to the caller as an error; none ends the process.            *)
C17_FailuresReturned ==
  out.op \in {"create", "connect", "validate"} => (out.kind # "crash" /\ alive)

-----------------------------------------------------------------------------
(* C18: a token that ConnectClient issued for one client is never accepted  *)
(* by ValidateToken under the user id of another client: the answer is an   *)
(* error, the decryption error when that client's keys can be loaded, and   *)
(* no payload of such a token is ever compared.                             *)
IssuedToAnother(uid, token) ==
  \E g \in Handlers : held[g].uid \notin {0, uid} /\ held[g].token = token

C18_TokenOfAnotherClient ==
  /\ (out.op = "validate" /\ IssuedToAnother(out.req.user_id, out.req.token)) =>
       /\ out.kind = "error"
       /\ (/\ DownloadPrivateKey(files, out.req.secret, out.req.user_id).ok
           /\ DownloadPublicKey(files, out.req.user_id).ok)
            => out.err = "failed to decrypt the token"
  /\ \A h \in Handlers :
       pc[h] = "compare" => ~IssuedToAnother(loc[h].req.user_id, loc[h].req.token)

\* The token of one client was presented under the user id of another whose
\* key pair was loaded with the right secret, and the decryption failed.
C18_Witness ==
  /\ out.op = "validate" /\ out.kind = "error"
  /\ out.err = "failed to decrypt the token"
  /\ IssuedToAnother(out.req.user_id, out.req.token)
  /\ DownloadPrivateKey(files, out.req.secret, out.req.user_id).ok

-----------------------------------------------------------------------------
(* C20: in every reachable state no field of a document of the store and    *)
(* no field of a response is the secret of a client or its private key in   *)
(* cleartext; a private key on disk is the file encrypted under the secret  *)
(* given at registration.                                                   *)
Secrets == {registered[u].secret : u \in DOMAIN registered}
PrivateKeyCleartext == {Key(u) : u \in UIDs} \cup {ImpersonatePrivateKey(Key(u)) : u \in UIDs}

\* The fields of the documents by the kind of value they hold.
TextFields == {"alias", "account_id", "host", "syncer", "version", "status"}
EncodedFields ==
  {"node", "address", "client_id", "password", "public_key",
   "computed_key_a", "computed_key_p"}

NoSecretIn(document) ==
  \A f \in DOMAIN document :
    /\ f \in TextFields \cup EncodedFields \cup {"uid"}
    /\ f \in TextFields => document[f] \notin Secrets
    /\ f \in EncodedFields => document[f] \notin PrivateKeyCleartext

C20_NoCleartextSecret ==
  /\ \A ix \in IndexNames : \A id \in DOMAIN docs[ix] : NoSecretIn(docs[ix][id])
  /\ (out.op = "create" /\ out.kind = "ok") =>
       /\ DOMAIN out.res = {"alias", "node", "address", "user_id"}
       /\ out.res.alias \notin Secrets
       /\ out.res.node \notin PrivateKeyCleartext
       /\ out.res.address \notin PrivateKeyCleartext
  /\ (out.op = "connect" /\ out.kind = "ok") =>
       /\ DOMAIN out.res = {"user_id", "token"}
       /\ out.res.token \notin PrivateKeyCleartext
  /\ ValidateAnswered =>
       /\ DOMAIN out.res = {"payload", "cache"}
       /\ NoSecretIn(out.res.payload)
       /\ NoSecretIn(out.res.cache)
  /\ \A u \in UIDs :
       files[u].private # NoFile =>
         /\ u \in DOMAIN registered
         /\ files[u].private = <<Key(u), registered[u].secret>>
         /\ registered[u].secret # ""

\* A connection was returned for a client whose documents and encrypted key
\* file exist.
C20_Witness ==
  /\ out.op = "connect" /\ out.kind = "ok"
  /\ HasClient(out.res.user_id) /\ HasCache(out.res.user_id)
  /\ files[out.res.user_id].private # NoFile

-----------------------------------------------------------------------------
(* C21 *)

-----------------------------------------------------------------------------
(* C22 *)

\* The computed key P that CreateCache derives from the hash of a password.
ComputedKeyPOf(password) == GenerateComputedKeyP(PasswordDigest(Sha256Hex(password)))

\* C22: on re-connection the cache is recomputed from the password of the
\* ConnectClient request: after a successful ConnectClient the computed key P
\* of the client's cache document, and the one in the token returned, are the
\* key derived from the request's password.
C22_CacheFromRequestPassword ==
  (out.op = "connect" /\ out.kind = "ok") =>
    /\ docs["cache"][out.res.user_id].computed_key_p = ComputedKeyPOf(out.req.password)
    /\ out.res.token[4] = ComputedKeyPOf(out.req.password)

-----------------------------------------------------------------------------
(* C23 *)

\* The client NewLocalClient has built for the registration in slot h.
Registering(h) == loc[h].op = "create" /\ pc[h] \in {"upload_public", "sync_cache", "sync_client"}

\* C23: the password hash a registration puts in the client (and from there
\* in the client document and the cache) is the hash of the password passed
\* to CreateClient, so that registrations with different passwords hold
\* different hashes and, for one account id, different computed keys P.
C23_HashOfPassword ==
  \A h \in Handlers :
    Registering(h) =>
      /\ loc[h].client.password = Sha256Hex(loc[h].req.password)
      /\ CreateCache(loc[h].client, loc[h].key).computed_key_p
           = ComputedKeyPOf(loc[h].req.password)

-----------------------------------------------------------------------------
(* C24 *)

\* C24: the computed keys A and P that a ConnectClient writes to the cache
\* are the ones written at registration: in every state, and so after any
\* sequence of re-connections, the keys of a client's cache document are the
\* keys derived from the account id and the password hash its registration
\* stored, and no step changes them.
C24_Step ==
  \A uid \in DOMAIN docs["cache"] :
    /\ uid \in DOMAIN docs'["cache"]
    /\ docs'["cache"][uid].computed_key_a = docs["cache"][uid].computed_key_a
    /\ docs'["cache"][uid].computed_key_p = docs["cache"][uid].computed_key_p
    /\ docs["cache"][uid].computed_key_a = <<"cka", registered[uid].account_id>>
    /\ docs["cache"][uid].computed_key_p = <<"ckp", <<"u64", Sha256Hex(ClientDocs[uid].password)>>>>

C24_CacheKeysStable == [][C24_Step]_vars

\* A re-connection wrote the cache document of a client again.
C24_Witness ==
  /\ out.op = "connect" /\ out.kind = "ok"
  /\ HasCache(out.res.user_id)
  /\ docs["cache"][out.res.user_id].computed_key_a = <<"cka", registered[out.res.user_id].account_id>>
  /\ out.res.token[3] = docs["cache"][out.res.user_id].computed_key_a
  /\ out.res.token[4] = docs["cache"][out.res.user_id].computed_key_p

-----------------------------------------------------------------------------
(* C25 *)

\* What ValidateToken accepts: the token decrypts under the private key the
\* secret opens, and its two keys are those of the client's cache document.
Accepted(uid, secret, token) ==
  /\ files[uid].private # NoFile
  /\ files[uid].private[2] = secret
  /\ files[uid].public # NoFile
  /\ Len(token) = 4
  /\ token[2] = files[uid].private[1]
  /\ uid \in DOMAIN docs["cache"]
  /\ token[3] = docs["cache"][uid].computed_key_a
  /\ token[4] = docs["cache"][uid].computed_key_p

\* The answer of a ValidateToken is status 0 exactly for an accepted token.
AcceptedAnswered ==
  out.op = "validate" =>
    ((out.kind = "commit" /\ out.status = 0)
       <=> Accepted(out.req.user_id, out.req.secret, out.req.token))

\* C25: there is no replay protection. A token ValidateToken accepts for a
\* user id and a secret stays accepted through every step of the service,
\* the ConnectClient calls for that client included, and every ValidateToken
\* that presents it again with the same user id and secret answers status 0.
C25_Step ==
  /\ \A uid \in UIDs, secret \in ConnectSecrets :
       \A token \in TokenInputs(uid) :
         Accepted(uid, secret, token) => Accepted(uid, secret, token)'
  /\ AcceptedAnswered'

C25_NoReplayProtection == [][C25_Step]_vars

\* A token was accepted while two connections for the client are held: a
\* ConnectClient for the client took place after the token was issued.
C25_Witness ==
  /\ ValidateAnswered /\ out.status = 0
  /\ \A g \in Handlers : held[g].uid = out.req.user_id
  /\ \E g \in Handlers : held[g].token = out.req.token

-----------------------------------------------------------------------------
(* C26 *)

\* The step is one of a request of the given kinds: it moves such a request
\* on, or returns (or ends the process) from it.
StepOf(ops) ==
  /\ out = NoOut
  /\ \/ out' # NoOut /\ out'.op \in ops
     \/ out' = NoOut /\ \E h \in Handlers : pc'[h] # pc[h] /\ loc'[h].op \in ops

\* C26: ConnectClient and ValidateToken never create, overwrite or delete a
\* key file: every step of either, the failing ones included, leaves the
\* account directories and both key files of every client as they were.
C26_Step == StepOf({"connect", "validate"}) => files' = files

C26_KeyFilesUntouched == [][C26_Step]_vars

\* A ConnectClient that ended the process on a wrong secret, or a
\* ValidateToken rejected for one, left the key files of the client in place.
C26_Witness ==
  /\ out.op \in {"connect", "validate"}
  /\ out.kind \in {"crash", "error"}
  /\ out.err = "failed to download private key"
  /\ 1 \in DOMAIN registered
  /\ files[1] = [dir |-> TRUE, private |-> <<Key(1), registered[1].secret>>, public |-> <<Key(1)>>]

-----------------------------------------------------------------------------
(* C27 *)

\* The fields of a ForeignClient as the specification words it.
ForeignFields == {"client_id", "node", "address"}

\* C27: the ForeignClient document of a registration, keyed by the identity
\* string in "clients", holds exactly the identity string, the node-address
\* hash and the address hash: the document a registration derives from its
\* client has these three fields and no other, and after a successful
\* registration it is stored under the identity string.
C27_ForeignDocument ==
  /\ \A h \in Handlers :
       Registering(h) =>
         LET foreign == MakeForeign(loc[h].client)
         IN /\ foreign.client_id = Identity(loc[h].key)
            /\ foreign.node = NodeAddressHash
            /\ foreign.address = AddressHash(loc[h].req.addr)
            /\ DOMAIN foreign = ForeignFields
  /\ (out.op = "create" /\ out.kind = "ok") =>
       \E id \in DOMAIN docs["clients"] :
         /\ docs["clients"][id].client_id = id
         /\ docs["clients"][id].address = out.res.address
         /\ DOMAIN docs["clients"][id] = ForeignFields

-----------------------------------------------------------------------------
(* C28 *)

\* The request presents a token a ConnectClient returned for its user id,
\* with the secret the client registered.
PresentsIssued(req) ==
  /\ IssuedFor(req.user_id, req.token)
  /\ req.user_id \in DOMAIN registered
  /\ req.secret = registered[req.user_id].secret

\* C28: a ConnectClient racing a ValidateToken for the same client never
\* corrupts the shared state. Every cache document holds both computed keys
\* at every moment; a ValidateToken that presents an issued token with the
\* right secret is, while in flight, looking at a cache that matches its
\* payload, and its answer is status 0.
C28_RaceKeepsCache ==
  /\ \A uid \in DOMAIN docs["cache"] :
       /\ {"computed_key_a", "computed_key_p"} \subseteq DOMAIN docs["cache"][uid]
       /\ docs["cache"][uid].computed_key_a = <<"cka", registered[uid].account_id>>
       /\ docs["cache"][uid].computed_key_p[1] = "ckp"
  /\ \A uid \in DOMAIN ClientDocs : uid \in DOMAIN docs["cache"]
  /\ \A h \in Handlers :
       (pc[h] = "compare" /\ PresentsIssued(loc[h].req)) =>
         /\ loc[h].req.user_id \in DOMAIN docs["cache"]
         /\ loc[h].payload.computed_key_a = docs["cache"][loc[h].req.user_id].computed_key_a
         /\ loc[h].payload.computed_key_p = docs["cache"][loc[h].req.user_id].computed_key_p
  /\ (out.op = "validate" /\ PresentsIssued(out.req)) =>
       (out.kind = "commit" /\ out.status = 0)

\* An issued token was accepted while a ConnectClient for the same client
\* was between the rewrite of the cache document and its answer.
C28_Witness ==
  /\ ValidateAnswered /\ out.status = 0
  /\ PresentsIssued(out.req)
  /\ \E g \in Handlers :
       /\ pc[g] = "sync_client" /\ loc[g].op = "connect"
       /\ loc[g].client.uid = out.req.user_id

-----------------------------------------------------------------------------
(* C29 *)

\* A registration that was abandoned after its private key was persisted
\* and before its client document was: the key file exists, the document
\* does not, and no handler is working on it.
Abandoned(u) ==
  /\ u \in DOMAIN registered
  /\ files[u].private # NoFile
  /\ u \notin DOMAIN ClientDocs
  /\ \A h \in Handlers : ~(Registering(h) /\ loc[h].client.uid = u)

\* A registration in slot h repeats the alias of the abandoned one.
Repeats(h, u) == Registering(h) /\ Abandoned(u) /\ loc[h].req.alias = registered[u].alias

\* C29: after a registration abandoned between key persistence and the
\* persistence of the client document the alias is still unregistered: no
\* client document carries it, a later CreateClient with the alias is not
\* rejected as an alias collision, and it generates another key pair. The
\* new key pair is stored under the directory of the new registration's own
\* internal id; the key file of the abandoned one stays where it was.
C29_AbandonedAliasFree ==
  \A u \in UIDs :
    Abandoned(u) =>
      /\ AliasUnused(registered[u].alias)
      /\ files[u].private = <<Key(u), registered[u].secret>>
      /\ (out.op = "create" /\ out.req.alias = registered[u].alias) => out.err # "invalid alias"
      /\ \A h \in Handlers :
           Repeats(h, u) =>
             /\ loc[h].client.uid # u
             /\ loc[h].key # Key(u)
             /\ files[loc[h].client.uid].dir
             /\ files[loc[h].client.uid].private = <<loc[h].key, loc[h].req.secret>>

\* A second registration under the alias of an abandoned one has persisted
\* its private key.
C29_Witness ==
  \E u \in UIDs, h \in Handlers :
    /\ Repeats(h, u)
    /\ files[loc[h].client.uid].private = <<loc[h].key, loc[h].req.secret>>
    /\ files[u].private = <<Key(u), registered[u].secret>>

\* C29 as stated: the later registration generates its key pair under the
\* account directory of the abandoned one.
C29_AsStated ==
  \A u \in UIDs :
    Abandoned(u) =>
      /\ AliasUnused(registered[u].alias)
      /\ (out.op = "create" /\ out.req.alias = registered[u].alias) => out.err # "invalid alias"
      /\ \A h \in Handlers :
           Repeats(h, u) =>
             /\ loc[h].key # Key(u)
             /\ loc[h].client.uid = u

-----------------------------------------------------------------------------
(* C30 *)

\* The uids whose account directory holds something.
Stored(u) == files[u].dir \/ files[u].private # NoFile \/ files[u].public # NoFile

\* C30: key storage is scoped per internal id. Every registration draws an
\* internal id no earlier registration had; the key files under the
\* directory of an id are those of the one client registered with it; no two
\* registrations in flight, and no two client documents, have the same id.
C30_Step ==
  /\ \A u \in DOMAIN registered' \ DOMAIN registered :
       /\ ~Stored(u)
       /\ u \notin DOMAIN ClientDocs
       /\ \A h \in Handlers : Registering(h) => loc[h].client.uid # u
  /\ \A u \in UIDs :
       Stored(u)' =>
         /\ u \in DOMAIN registered'
         /\ files'[u].private \in {NoFile, <<Key(u), registered'[u].secret>>}
         /\ files'[u].public \in {NoFile, <<Key(u)>>}
  /\ \A u \in DOMAIN registered : u \in DOMAIN registered' /\ registered'[u] = registered[u]
  /\ \A g, h \in Handlers :
       (Registering(g)' /\ Registering(h)' /\ g # h) =>
         /\ loc'[g].client.uid # loc'[h].client.uid
         /\ loc'[g].key # loc'[h].key
  /\ \A u \in DOMAIN ClientDocs' : ClientDocs'[u].uid = u

C30_KeysPerInternalId == [][C30_Step]_vars

\* Two registrations have written their key files, each under its own id.
C30_Witness ==
  /\ {1, 2} \subseteq DOMAIN registered
  /\ files[1].private = <<Key(1), registered[1].secret>>
  /\ files[2].private = <<Key(2), registered[2].secret>>
  /\ files[1].public = <<Key(1)>>
  /\ files[2].public = <<Key(2)>>
  /\ \E h \in Handlers : Registering(h) /\ loc[h].client.uid = 2

-----------------------------------------------------------------------------
(* C31 *)

\* C31: loading the private key fails with distinguishable errors on a
\* missing file, on a file without a decodable PEM block and on a wrong
\* secret: each cause yields an error the other two never yield, and none
\* yields a key; with the file in place and the right secret the key of the
\* file is returned.
C31_LoadFailsDistinctly ==
  out.op = "download" =>
    LET file == files[out.req.uid].private
    IN /\ file = NoFile =>
            /\ out.kind = "error" /\ out.res = <<>>
            /\ out.err = "failed to read file private.pem"
       /\ file = CorruptFile =>
            /\ out.kind = "error" /\ out.res = <<>>
            /\ out.err = "failed to decode PEM bytes"
       /\ (Len(file) = 2 /\ file[2] # out.req.secret) =>
            /\ out.kind = "error" /\ out.res = <<>>
            /\ out.err \in {"failed to decrypt pem block", "failed to analyze RSA private key"}
       /\ (Len(file) = 2 /\ file[2] = out.req.secret) =>
            /\ out.kind = "ok" /\ out.res = file[1] /\ out.err = ""

\* A corrupt private.pem was loaded next to an account whose file is
\* encrypted under another secret.
C31_Witness ==
  /\ out.op = "download"
  /\ out.err = "failed to decode PEM bytes"
  /\ files[out.req.uid].private = CorruptFile
  /\ \E u \in UIDs : Len(files[u].private) = 2 /\ files[u].private[2] # out.req.secret

-----------------------------------------------------------------------------
(* C32 *)

\* The node document is stored with the status in "peers" and in "node".
StoredStatus(st, status) ==
  \A index \in {"peers", "node"} :
    /\ index \in st.indices
    /\ NodeHash \in DOMAIN st.docs[index]
    /\ st.docs[index][NodeHash].status = status

\* C32: Attach, Dettach and Liquidate write the node document with the status
\* alive, hibernating and liquidated to "peers" and "node": after start-up,
\* and as long as the process runs, the stored status is alive; when the
\* process exits on a signal the stored status is hibernating; a call of
\* Liquidate would store liquidated.
C32_NodeLifecycle ==
  /\ alive => StoredStatus(Store, "alive")
  /\ alive => StoredStatus(Liquidate(Store), "liquidated")
  /\ out.op = "signal" => StoredStatus(Store, "hibernating")

-----------------------------------------------------------------------------
(* C33 *)

\* The collections CreateClient, ConnectClient, ValidateToken and
\* RetrieveClient read or search.
ReadCollections == {"node", "local_clients", "cache", "clients"}

\* C33: every collection the handlers read or search is among those
\* Initialize creates at start-up: while the process runs each of them
\* exists, and the alias search of CreateClient and ConnectClient does not
\* fail for want of its collection.
C33_CollectionsInitialized ==
  alive =>
    /\ ReadCollections \subseteq indices
    /\ \A alias \in ConnectAliases : FindDocument(Store, "local_clients", "alias", alias).ok

-----------------------------------------------------------------------------
(* C34 *)

\* The recipient has a foreign document in a "clients" collection that
\* exists.
Resolvable(rcp) ==
  /\ "clients" \in indices
  /\ \E id \in DOMAIN docs["clients"] : docs["clients"][id].client_id = rcp

\* C34: NewTransaction returns nil, and does not panic, whenever the
\* recipient cannot be resolved to a foreign document, zero hits of the
\* search included; a transaction it returns is unsigned, and a transaction
\* is signed only by SignTransaction, over bytes that hold the sender, the
\* recipient, the value and the timestamp and not the signature.
C34_NewTransaction ==
  /\ out.op = "new_transaction" =>
       /\ out.kind \in {"nil", "ok"}
       /\ out.kind = "ok" <=> Resolvable(out.req.rcp)
       /\ out.kind = "nil" => out.res = <<>>
       /\ out.kind = "ok" =>
            /\ out.res.signature = NoSignature
            /\ out.res.recipient = out.req.rcp
            /\ out.res.sender = Identity(Key(out.req.sender))
  /\ out.op = "sign" =>
       /\ out.res.signature # NoSignature
       /\ out.res.signature =
            <<"pkcs1v15", Key(out.req.sender),
              Sha256Hex(<<"json", [sender |-> out.res.sender, recipient |-> out.res.recipient,
                                   value |-> out.res.value, timestamp |-> out.res.timestamp]>>)>>

-----------------------------------------------------------------------------
(* C35 *)

\* C35: generateAccountId returns exactly 15 characters, each a decimal
\* digit, for every outcome of its draws: each of the 20 draws is in 5..45
\* and each pair sum in 10..90, so the text of the ten sums has 20
\* characters and is cut to 15.
C35_AccountIdDigits ==
  out.op = "account_id" =>
    /\ Len(out.req.baseID) = 20
    /\ \A i \in 1..20 : out.req.baseID[i] \in 5..45
    /\ \A k \in 1..10 : out.req.baseID[2 * k - 1] + out.req.baseID[2 * k] \in 10..90
    /\ Len(out.res) = 15
    /\ \A i \in 1..15 : out.res[i] \in DigitChars

\* An account id was generated from draws that include the least and the
\* greatest outcome.
C35_Witness ==
  /\ out.op = "account_id"
  /\ out.req.baseID[1] = 5 /\ out.req.baseID[2] = 5
  /\ out.req.baseID[20] = 45
  /\ out.res[1] = "1" /\ out.res[2] = "0"
  /\ out.res[15] = "9"

=============================================================================
